---- MODULE Spec2Model ----
(***************************************************************************)
(* Skill graph of the portfolio backend: the Skill store, the three        *)
(* content collections (Project, Certification, Education) and the         *)
(* SkillManager operations and route handlers that keep them in step.      *)
(*                                                                         *)
(* Strings are sequences of one-character strings, so that trimming,       *)
(* cleaning, case folding and pattern matching are computed, not assumed.  *)
(***************************************************************************)
EXTENDS Integers, Sequences, FiniteSets, TLC

VARIABLES skills, projects, certifications, education, nextId, log, pending

vars == <<skills, projects, certifications, education, nextId, log, pending>>

----------------------------------------------------------------------------
(* Characters and strings                                                  *)

UpperChars == <<"A","B","C","D","E","F","G","H","I","J","K","L","M",
                "N","O","P","Q","R","S","T","U","V","W","X","Y","Z">>
LowerChars == <<"a","b","c","d","e","f","g","h","i","j","k","l","m",
                "n","o","p","q","r","s","t","u","v","w","x","y","z">>

DQ == "\""
SQ == "'"
SP == " "

IndexOf(c, tbl) == IF \E i \in 1..Len(tbl) : tbl[i] = c
                   THEN CHOOSE i \in 1..Len(tbl) : tbl[i] = c
                   ELSE 0

LowerChar(c) == IF IndexOf(c, UpperChars) > 0 THEN LowerChars[IndexOf(c, UpperChars)] ELSE c
UpperChar(c) == IF IndexOf(c, LowerChars) > 0 THEN UpperChars[IndexOf(c, LowerChars)] ELSE c

toLowerCase(s) == [i \in 1..Len(s) |-> LowerChar(s[i])]
toUpperCase(s) == [i \in 1..Len(s) |-> UpperChar(s[i])]

IsSpace(c) == c = SP

RECURSIVE DropWhileHead(_, _)
DropWhileHead(s, cls) == IF s # <<>> /\ Head(s) \in cls THEN DropWhileHead(Tail(s), cls) ELSE s

RECURSIVE DropWhileLast(_, _)
DropWhileLast(s, cls) == IF s # <<>> /\ s[Len(s)] \in cls
                         THEN DropWhileLast(SubSeq(s, 1, Len(s) - 1), cls) ELSE s

trim(s) == DropWhileLast(DropWhileHead(s, {SP}), {SP})

RECURSIVE CollapseSpaces(_)
CollapseSpaces(s) ==
  IF Len(s) < 2 THEN s
  ELSE IF IsSpace(s[1]) /\ IsSpace(s[2]) THEN CollapseSpaces(Tail(s))
  ELSE <<s[1]>> \o CollapseSpaces(Tail(s))

cleanSkillName(name) ==
  LET t1 == trim(name)
      t2 == DropWhileLast(DropWhileHead(t1, {DQ, SQ, "(", ")"}), {DQ, SQ, "(", ")"})
      t3 == SelectSeq(t2, LAMBDA c : c # DQ)
  IN  trim(CollapseSpaces(t3))

----------------------------------------------------------------------------
(* Identifiers                                                             *)

\* Length of the textual form of a store id (24 hexadecimal characters).
ObjectIdLen == 24

HexChars == {"0","1","2","3","4","5","6","7","8","9",
             "a","b","c","d","e","f","A","B","C","D","E","F"}
Digits == <<"1","2","3","4","5","6","7","8","9">>

\* String(id): the textual form of the store id n (1..9).
IdString(n) == [i \in 1..ObjectIdLen |-> IF i < ObjectIdLen THEN "0" ELSE Digits[n]]

\* /^[0-9a-fA-F]{24}$/
looksLikeObjectId(s) == Len(s) = ObjectIdLen /\ \A i \in 1..Len(s) : s[i] \in HexChars

\* The id a 24-hex string denotes (0 when it denotes none of the ids 1..9).
ParseId(s) == IF \E n \in 1..9 : IdString(n) = s
              THEN CHOOSE n \in 1..9 : IdString(n) = s
              ELSE 0

\* A loose identifier: a raw string (kind "str"; name holds its characters,
\* which may spell an id) or an object carrying a name and possibly an id
\* (kind "obj"; id = 0 when the object has no _id).
Str(chars) == [kind |-> "str", name |-> chars, id |-> 0]
Obj(chars, i) == [kind |-> "obj", name |-> chars, id |-> i]

\* A sources entry; referenceId = NoRef when the entry carries none.
NoRef == "undefined"
Source(t, r) == [type |-> t, referenceId |-> r]

----------------------------------------------------------------------------
(* Pattern matching: new RegExp(`^${p}$`, 'i') over literals, groups and   *)
(* the quantifier +                                                        *)

Plus == "+"

RECURSIVE ParenDepthOk(_, _)
ParenDepthOk(p, d) ==
  IF p = <<>> THEN d = 0
  ELSE IF Head(p) = "(" THEN ParenDepthOk(Tail(p), d + 1)
  ELSE IF Head(p) = ")" THEN d > 0 /\ ParenDepthOk(Tail(p), d - 1)
  ELSE ParenDepthOk(Tail(p), d)

\* Every + has something to repeat: it does not follow ^, ( or another +.
QuantifiersOk(p) ==
  \A i \in 1..Len(p) : p[i] = Plus => (i > 1 /\ p[i - 1] \notin {Plus, "("})

\* The pattern compiles (an unbalanced parenthesis and a quantifier with
\* nothing to repeat are SyntaxErrors).
RegExpValid(p) == ParenDepthOk(p, 0) /\ QuantifiersOk(p)

\* Whole-string match of s against the literals of p, a + repeating the
\* literal before it (a quantified group is outside the names modelled).
RECURSIVE Matches(_, _)
Matches(p, s) ==
  IF p = <<>> THEN s = <<>>
  ELSE IF s = <<>> \/ p[1] # s[1] THEN FALSE
  ELSE IF Len(p) >= 2 /\ p[2] = Plus
    THEN Matches(p, Tail(s)) \/ Matches(SubSeq(p, 3, Len(p)), Tail(s))
  ELSE Matches(Tail(p), Tail(s))

\* A pattern without quantifier matches exactly the string of its literals.
MatchesWhole(p, s) == IF \E i \in 1..Len(p) : p[i] = Plus THEN Matches(p, s) ELSE p = s

\* The same match without the 'i' flag.
RegExpTestCaseSensitive(p, s) == MatchesWhole(SelectSeq(p, LAMBDA c : c \notin {"(", ")"}), s)

\* Whole-string, case-insensitive match; parentheses only group.
RegExpTest(p, s) ==
  MatchesWhole(toLowerCase(SelectSeq(p, LAMBDA c : c \notin {"(", ")"})), toLowerCase(s))

----------------------------------------------------------------------------
(* Skill store queries (documents are kept in insertion order)             *)

FirstIndex(S, Test(_)) ==
  IF \E i \in 1..Len(S) : Test(S[i])
  THEN CHOOSE i \in 1..Len(S) : Test(S[i]) /\ \A j \in 1..(i - 1) : ~Test(S[j])
  ELSE 0

findById(S, id) == FirstIndex(S, LAMBDA d : d.id = id)
findOneByName(S, name) == FirstIndex(S, LAMBDA d : d.name = name)
\* The pattern lookup when it found nothing.
findOneByRegExpNothing(S, p) == 0

findOneByRegExp(S, p) == FirstIndex(S, LAMBDA d : RegExpTest(p, d.name))

----------------------------------------------------------------------------
(* SkillManager.syncSkills                                                 *)

\* new Skill({ name, proficiency, sources }) with the schema's trim on the
\* name and its default isActive = true.
NewSkill(id, name, proficiency, sources) ==
  [id |-> id, name |-> trim(name), proficiency |-> proficiency, isActive |-> TRUE,
   sources |-> sources]

\* seen.has(k) / seen.set(k, n); resolvedNames.push(n)
AddName(acc, n) ==
  IF \E i \in 1..Len(acc) : toLowerCase(acc[i]) = toLowerCase(n) THEN acc ELSE Append(acc, n)

\* First loop: the deduplicated list of names, first-seen casing kept.
\* Objects are taken to carry a name (an object with neither a name nor a
\* resolvable id is outside the inputs modelled here and is skipped).
RECURSIVE resolveNames(_, _, _)
resolveNames(S, items, acc) ==
  IF items = <<>> THEN acc
  ELSE
    LET item == Head(items)
        itemStr == cleanSkillName(item.name)
        next ==
          IF item.kind = "obj" THEN
            IF item.id # 0 /\ findById(S, item.id) # 0
              THEN AddName(acc, S[findById(S, item.id)].name)
            ELSE IF item.name # <<>> THEN AddName(acc, trim(item.name))
            ELSE acc
          ELSE IF item.name = <<>> THEN acc
          ELSE IF itemStr = <<>> THEN acc
          ELSE IF looksLikeObjectId(itemStr) /\ findById(S, ParseId(itemStr)) # 0
            THEN AddName(acc, S[findById(S, ParseId(itemStr))].name)
          ELSE AddName(acc, itemStr)
    IN resolveNames(S, Tail(items), next)

\* skill.sources.find(s => s.referenceId.toString() === referenceId.toString()):
\* "found", "none", or "throw" when an entry without referenceId is reached
\* before a match.
findSourceByRef(sources, referenceId) ==
  LET hit == FirstIndex(sources, LAMBDA x : x.referenceId = referenceId)
      bad == FirstIndex(sources, LAMBDA x : x.referenceId = NoRef)
  IN IF hit # 0 /\ (bad = 0 \/ hit < bad) THEN "found"
     ELSE IF bad # 0 THEN "throw"
     ELSE "none"

\* Second loop: find-or-create each name and record the source.  The result
\* carries the store as saved so far, also when the call throws (ok = FALSE).
RECURSIVE syncNames(_, _, _, _, _, _)
syncNames(S, n, names, source, referenceId, ret) ==
  IF names = <<>> THEN [skills |-> S, nextId |-> n, ok |-> TRUE, ret |-> ret]
  ELSE
    LET skillName == Head(names)
        exact == findOneByName(S, skillName)
        i == IF exact # 0 THEN exact ELSE findOneByRegExp(S, skillName)
        cleanName == cleanSkillName(skillName)
        found == findSourceByRef(S[i].sources, referenceId)
        pushed == [S EXCEPT ![i].sources = Append(@, Source(source, referenceId))]
    IN
      IF exact = 0 /\ ~RegExpValid(skillName)
        THEN [skills |-> S, nextId |-> n, ok |-> FALSE, ret |-> ret]
      ELSE IF i = 0 THEN
        IF cleanName = <<>>
          THEN syncNames(S, n, Tail(names), source, referenceId, ret)
          ELSE syncNames(Append(S, NewSkill(n, cleanName, "Beginner", <<Source(source, referenceId)>>)),
                         n + 1, Tail(names), source, referenceId, Append(ret, n))
      ELSE IF found = "throw"
        THEN [skills |-> S, nextId |-> n, ok |-> FALSE, ret |-> ret]
      ELSE IF found = "found"
        THEN syncNames(S, n, Tail(names), source, referenceId, Append(ret, S[i].id))
      ELSE syncNames(pushed, n, Tail(names), source, referenceId, Append(ret, S[i].id))

syncSkills(S, n, skillNames, source, referenceId) ==
  syncNames(S, n, resolveNames(S, skillNames, <<>>), source, referenceId, <<>>)

\* Skill.find({ sources: { $elemMatch: { type, referenceId } } }) for one
\* Skill: the position of its first source of that type and reference, or 0.
findSourceOf(sources, source, referenceId) ==
  FirstIndex(sources, LAMBDA x : x.type = source /\ x.referenceId = referenceId)

----------------------------------------------------------------------------
(* SkillManager._resolveSkill, removeSkillSource, hideSkill, showSkill     *)

\* [ok, idx]: idx is the position of the resolved Skill in S, 0 for null;
\* ok = FALSE when building the pattern throws.  An object with neither a
\* name nor a resolvable id resolves to null.
resolveSkill(S, identifier) ==
  LET raw == identifier.name
      byId == findById(S, identifier.id)
      byHex == findById(S, ParseId(raw))
      pat == trim(raw)
  IN
    IF identifier.kind = "obj" /\ raw = <<>>
      THEN [ok |-> TRUE, idx |-> IF identifier.id # 0 THEN byId ELSE 0]
    ELSE IF raw = <<>> THEN [ok |-> TRUE, idx |-> 0]
    ELSE IF identifier.kind = "str" /\ looksLikeObjectId(raw) /\ byHex # 0
      THEN [ok |-> TRUE, idx |-> byHex]
    ELSE IF ~RegExpValid(pat) THEN [ok |-> FALSE, idx |-> 0]
    ELSE [ok |-> TRUE, idx |-> findOneByRegExp(S, pat)]

\* sources.filter(s => !(s.type === source && s.referenceId.toString() === ref))
withoutSource(sources, source, referenceId) ==
  SelectSeq(sources, LAMBDA x : ~(x.type = source /\ x.referenceId = referenceId))

\* The Skill as saved by removeSkillSource / the tail of unlinkSkillFromEntity.
dropSource(d, source, referenceId) ==
  LET kept == withoutSource(d.sources, source, referenceId)
  IN [d EXCEPT !.sources = kept,
               !.isActive = IF Len(kept) = 0 THEN FALSE ELSE @]

\* [ok, skills]
removeSkillSource(S, skillId, source, referenceId) ==
  LET r == resolveSkill(S, skillId)
  IN IF ~r.ok THEN [ok |-> FALSE, skills |-> S]
     ELSE IF r.idx = 0 THEN [ok |-> TRUE, skills |-> S]
     ELSE [ok |-> TRUE,
           skills |-> [S EXCEPT ![r.idx] = dropSource(@, source, referenceId)]]

\* hideSkill / showSkill when they also dropped the Skill's sources.
setSkillActiveDroppingSources(S, skillId, active) ==
  LET r == resolveSkill(S, skillId)
  IN IF ~r.ok THEN [ok |-> FALSE, error |-> "regexp", skills |-> S]
     ELSE IF r.idx = 0 THEN [ok |-> FALSE, error |-> "Skill not found", skills |-> S]
     ELSE [ok |-> TRUE, error |-> "none",
           skills |-> [S EXCEPT ![r.idx].isActive = active, ![r.idx].sources = <<>>]]

\* hideSkill (active = FALSE) and showSkill (active = TRUE): [ok, error, skills]
setSkillActive(S, skillId, active) ==
  LET r == resolveSkill(S, skillId)
  IN IF ~r.ok THEN [ok |-> FALSE, error |-> "regexp", skills |-> S]
     ELSE IF r.idx = 0 THEN [ok |-> FALSE, error |-> "Skill not found", skills |-> S]
     ELSE [ok |-> TRUE, error |-> "none",
           skills |-> [S EXCEPT ![r.idx].isActive = active]]

----------------------------------------------------------------------------
(* SkillManager.getSkillReferences, canDeleteSkill                         *)

InSeq(x, q) == \E i \in 1..Len(q) : q[i] = x
SomeIn(q, Test(_)) == \E i \in 1..Len(q) : Test(q[i])

\* Project.find({ $or: [{ skills: id }, { technologies: /^name$/i }] })
projectReferences(P, d) ==
  {p \in DOMAIN P : InSeq(d.id, P[p].skills)
                     \/ SomeIn(P[p].technologies, LAMBDA t : RegExpTest(d.name, t))}

\* Certification.find({ $or: [{ 'skills._id': id }, { 'skills.name': /^name$/i }] })
certificationReferences(C, d) ==
  {c \in DOMAIN C : SomeIn(C[c].skills,
                            LAMBDA e : e.id = d.id \/ RegExpTest(d.name, e.name))}

\* Education.find({ $or: [{ skills: id }, { skills: /^name$/i }] }): the
\* pattern matches string elements only; an element equals the id only when
\* it is stored as an id value, which a string never is.
educationReferences(E, d) ==
  {e \in DOMAIN E : SomeIn(E[e].skills,
                            LAMBDA x : x.kind = "str" /\ RegExpTest(d.name, x.name))}

\* The three queries of getSkillReferences for the Skill d.
referencesOf(P, C, E, d) ==
  IF ~RegExpValid(d.name)
  THEN [ok |-> FALSE, found |-> TRUE, projects |-> {}, certifications |-> {}, education |-> {}]
  ELSE [ok |-> TRUE, found |-> TRUE,
        projects |-> projectReferences(P, d),
        certifications |-> certificationReferences(C, d),
        education |-> educationReferences(E, d)]

\* [ok, found, projects, certifications, education]
getSkillReferences(S, P, C, E, skillId) ==
  LET r == resolveSkill(S, skillId)
  IN IF ~r.ok \/ r.idx = 0
     THEN [ok |-> r.ok, found |-> FALSE, projects |-> {}, certifications |-> {},
           education |-> {}]
     ELSE referencesOf(P, C, E, S[r.idx])

activeReferences(P, C, E, refs) ==
  Cardinality({p \in refs.projects : P[p].isActive})
  + Cardinality({c \in refs.certifications : C[c].isActive})
  + Cardinality({e \in refs.education : E[e].isActive})

\* [ok, canDelete, activeReferences, totalReferences]
deletable(P, C, E, refs) ==
  [ok |-> refs.ok,
   canDelete |-> activeReferences(P, C, E, refs) = 0,
   activeReferences |-> activeReferences(P, C, E, refs),
   totalReferences |-> Cardinality(refs.projects) + Cardinality(refs.certifications)
                       + Cardinality(refs.education)]

canDeleteSkill(S, P, C, E, skillId) == deletable(P, C, E, getSkillReferences(S, P, C, E, skillId))

----------------------------------------------------------------------------
(* SkillManager.deleteSkill                                                *)

\* The _id mongoose gives an embedded Certification skill: the id of the
\* subdocument, never the id of a Skill.
SubdocId == 0 - 1

\* [skill.name, skill.name.toLowerCase(), skill.name.toUpperCase()]
nameVariants(name) == {name, toLowerCase(name), toUpperCase(name)}

\* updateMany(filter, { $pull: { skills: { name: pulled } } }) on one document
pullByName(doc, d, pulled) ==
  IF SomeIn(doc.skills, LAMBDA x : x.kind = "obj" /\ RegExpTest(d.name, x.name))
  THEN [doc EXCEPT !.skills = SelectSeq(@, LAMBDA x : ~(x.kind = "obj" /\ x.name = pulled))]
  ELSE doc

\* updateMany({ 'skills._id': id }, { $pull: { skills: { _id: id } } }) on one document
pullById(doc, d) ==
  [doc EXCEPT !.skills = SelectSeq(@, LAMBDA x : ~(x.kind = "obj" /\ x.id = d.id))]

pullFromProject(doc, d) ==
  [doc EXCEPT !.skills = SelectSeq(@, LAMBDA i : i # d.id),
              !.technologies = SelectSeq(@, LAMBDA t : t \notin nameVariants(d.name))]

\* deleteSkill once the Skill d is resolved; check is canDeleteSkill's answer,
\* refs is getSkillReferences', pulled the name the Certification pull matches.
deleteResolved(S, P, C, E, d, force, check, refs, pulled) ==
  LET same == [ok |-> FALSE, error |-> "none", blocking |-> 0, deleted |-> 0,
               name |-> <<>>, skills |-> S, projects |-> P, certifications |-> C,
               education |-> E]
  IN
    IF ~force /\ ~check.ok THEN [same EXCEPT !.error = "regexp"]
    ELSE IF ~force /\ ~check.canDelete
      THEN [same EXCEPT !.error = "Cannot delete skill", !.blocking = check.activeReferences]
    ELSE IF ~refs.ok THEN [same EXCEPT !.error = "regexp"]
    ELSE [ok |-> TRUE, error |-> "none", blocking |-> 0, deleted |-> d.id, name |-> d.name,
          skills |-> SelectSeq(S, LAMBDA x : x.id # d.id),
          projects |-> [p \in DOMAIN P |-> pullFromProject(P[p], d)],
          certifications |-> [c \in DOMAIN C |-> pullByName(pullById(C[c], d), d, pulled)],
          education |-> [e \in DOMAIN E |-> pullByName(pullById(E[e], d), d, d.name)]]

\* castPull: whether the store driver passes the pulled Certification name
\* through the schema's setters (trim, lowercase) before matching.
\* [ok, error, blocking, deleted, name, skills, projects, certifications, education]
deleteSkill(S, P, C, E, skillId, force, castPull) ==
  LET r == resolveSkill(S, skillId)
  IN IF ~r.ok \/ r.idx = 0
     THEN [ok |-> FALSE, error |-> IF r.ok THEN "Skill not found" ELSE "regexp",
           blocking |-> 0, deleted |-> 0, name |-> <<>>, skills |-> S, projects |-> P,
           certifications |-> C, education |-> E]
     ELSE deleteResolved(S, P, C, E, S[r.idx], force,
                         canDeleteSkill(S, P, C, E, Str(IdString(S[r.idx].id))),
                         getSkillReferences(S, P, C, E, skillId),
                         IF castPull THEN toLowerCase(trim(S[r.idx].name)) ELSE S[r.idx].name)

----------------------------------------------------------------------------
(* SkillManager.linkSkillToEntity, unlinkSkillFromEntity                   *)

entityExists(P, C, E, entityType, entityId) ==
  \/ entityType = "project" /\ entityId \in DOMAIN P
  \/ entityType = "certification" /\ entityId \in DOMAIN C
  \/ entityType = "education" /\ entityId \in DOMAIN E

\* entity.skills.some(...): a Project's skills hold ids; the other two hold
\* strings or objects.
alreadyLinked(P, C, E, entityType, entityId, d) ==
  LET test(x) == IF x.kind = "str" THEN x.name = d.name
                 ELSE IF x.name # <<>> THEN toLowerCase(x.name) = toLowerCase(d.name)
                 ELSE FALSE
  IN IF entityType = "project" THEN InSeq(d.id, P[entityId].skills)
     ELSE IF entityType = "certification" THEN SomeIn(C[entityId].skills, test)
     ELSE SomeIn(E[entityId].skills, test)

\* The Certification schema trims and lowercases an embedded name and gives
\* the subdocument its own _id.
certificationSkill(name) == Obj(toLowerCase(trim(name)), SubdocId)

\* enum of skills.proficiency in the Certification schema: saving an embedded
\* skill with any other proficiency fails validation.
CertificationProficiency == {"beginner", "intermediate", "advanced", "expert"}

\* The push without the sourceExists test.
addSourceUnchecked(d, entityType, entityId) ==
  [d EXCEPT !.sources = Append(@, Source(entityType, entityId))]

addSource(d, entityType, entityId) ==
  IF SomeIn(d.sources, LAMBDA x : x.type = entityType /\ x.referenceId = entityId)
  THEN d ELSE [d EXCEPT !.sources = Append(@, Source(entityType, entityId))]

\* [ok, error, skills, projects, certifications, education]
linkSkillToEntity(S, P, C, E, skillId, entityType, entityId) ==
  LET r == resolveSkill(S, skillId)
      d == S[r.idx]
      same == [ok |-> FALSE, error |-> "none", skills |-> S, projects |-> P,
               certifications |-> C, education |-> E]
  IN
    IF ~r.ok THEN [same EXCEPT !.error = "regexp"]
    ELSE IF r.idx = 0 THEN [same EXCEPT !.error = "Skill not found"]
    ELSE IF ~entityExists(P, C, E, entityType, entityId)
      THEN [same EXCEPT !.error = "entity not found"]
    ELSE IF alreadyLinked(P, C, E, entityType, entityId, d)
      THEN [same EXCEPT !.error = "Skill is already linked to this entity"]
    ELSE IF entityType = "certification" /\ d.proficiency \notin CertificationProficiency
      THEN [same EXCEPT !.error = "ValidationError"]
    ELSE [ok |-> TRUE, error |-> "none",
          skills |-> [S EXCEPT ![r.idx] = addSource(@, entityType, entityId)],
          projects |->
            IF entityType = "project" /\ ~InSeq(d.name, P[entityId].technologies)
            THEN [P EXCEPT ![entityId].technologies = Append(@, d.name)] ELSE P,
          certifications |->
            IF entityType = "certification"
            THEN [C EXCEPT ![entityId].skills = Append(@, certificationSkill(d.name))] ELSE C,
          education |->
            IF entityType = "education"
            THEN [E EXCEPT ![entityId].skills = Append(@, Obj(d.name, 0))] ELSE E]

\* The same filter when it compared plain strings only.
keepOnUnlinkStringsOnly(x, d) ==
  IF x.kind = "str" THEN x.name # <<>> /\ toLowerCase(x.name) # toLowerCase(d.name)
  ELSE TRUE

\* The filter unlinkSkillFromEntity applies to a Certification's or an
\* Education's skills.
keepOnUnlink(x, d) ==
  IF x.kind = "str" THEN x.name # <<>> /\ toLowerCase(x.name) # toLowerCase(d.name)
  ELSE IF x.name # <<>> THEN toLowerCase(x.name) # toLowerCase(d.name)
  ELSE IF x.id # 0 THEN x.id # d.id
  ELSE TRUE

\* [ok, error, skills, projects, certifications, education]
unlinkSkillFromEntity(S, P, C, E, skillId, entityType, entityId) ==
  LET r == resolveSkill(S, skillId)
      d == S[r.idx]
      same == [ok |-> FALSE, error |-> "none", skills |-> S, projects |-> P,
               certifications |-> C, education |-> E]
  IN
    IF ~r.ok THEN [same EXCEPT !.error = "regexp"]
    ELSE IF r.idx = 0 THEN [same EXCEPT !.error = "Skill not found"]
    ELSE IF ~entityExists(P, C, E, entityType, entityId)
      THEN [same EXCEPT !.error = "entity not found"]
    ELSE [ok |-> TRUE, error |-> "none",
          skills |-> [S EXCEPT ![r.idx] = dropSource(@, entityType, entityId)],
          projects |->
            IF entityType = "project"
            THEN [P EXCEPT ![entityId].technologies =
                    SelectSeq(@, LAMBDA t : toLowerCase(t) # toLowerCase(d.name))]
            ELSE P,
          certifications |->
            IF entityType = "certification"
            THEN [C EXCEPT ![entityId].skills = SelectSeq(@, LAMBDA x : keepOnUnlink(x, d))]
            ELSE C,
          education |->
            IF entityType = "education"
            THEN [E EXCEPT ![entityId].skills = SelectSeq(@, LAMBDA x : keepOnUnlink(x, d))]
            ELSE E]

----------------------------------------------------------------------------
(* SkillManager.cleanupOrphanedReferences, recalculateSkillVisibility      *)

skillIdSet(S) == {S[i].id : i \in 1..Len(S)}
skillNameSet(S) == {toLowerCase(S[i].name) : i \in 1..Len(S)}

\* The Project sweep without the technologies filter.
cleanProjectIdsOnly(S, doc) ==
  [doc EXCEPT !.skills = SelectSeq(@, LAMBDA i : i \in skillIdSet(S))]

cleanProject(S, doc) ==
  [doc EXCEPT !.skills = SelectSeq(@, LAMBDA i : i \in skillIdSet(S)),
              !.technologies =
                SelectSeq(@, LAMBDA t : t # <<>> /\ toLowerCase(t) \in skillNameSet(S))]

\* The filter applied to a Certification's and to an Education's skills.
keepOnCleanup(S, x) ==
  IF x.kind = "str" THEN x.name # <<>> /\ toLowerCase(x.name) \in skillNameSet(S)
  ELSE IF x.id # 0 THEN x.id \in skillIdSet(S)
  ELSE IF x.name # <<>> THEN toLowerCase(x.name) \in skillNameSet(S)
  ELSE FALSE

cleanSkills(S, doc) == [doc EXCEPT !.skills = SelectSeq(@, LAMBDA x : keepOnCleanup(S, x))]

hasManualSource(d) == SomeIn(d.sources, LAMBDA x : x.type = "manual")

\* The last loop of the sweep over the Skills read at its start, from
\* position i on; T is the store as saved so far.
RECURSIVE deactivateUnreferenced(_, _, _, _, _, _)
deactivateUnreferenced(T, P, C, E, i, count) ==
  IF i > Len(T) THEN [ok |-> TRUE, skills |-> T, deactivatedSkills |-> count]
  ELSE
    LET refs == getSkillReferences(T, P, C, E, Str(IdString(T[i].id)))
    IN IF ~refs.ok THEN [ok |-> FALSE, skills |-> T, deactivatedSkills |-> count]
       ELSE IF activeReferences(P, C, E, refs) = 0 /\ ~hasManualSource(T[i])
         THEN deactivateUnreferenced([T EXCEPT ![i].isActive = FALSE], P, C, E, i + 1, count + 1)
       ELSE deactivateUnreferenced(T, P, C, E, i + 1, count)

\* The sweep's answer: P2, C2, E2 are the entities as filtered, tail the
\* outcome of the loop over the Skills.
cleanupResult(P, C, E, P2, C2, E2, tail) ==
  [ok |-> tail.ok,
   cleanedProjects |-> Cardinality({p \in DOMAIN P : P2[p] # P[p]}),
   cleanedCertifications |->
     Cardinality({c \in DOMAIN C : Len(C2[c].skills) # Len(C[c].skills)}),
   cleanedEducation |->
     Cardinality({e \in DOMAIN E : Len(E2[e].skills) # Len(E[e].skills)}),
   deactivatedSkills |-> tail.deactivatedSkills,
   skills |-> tail.skills, projects |-> P2, certifications |-> C2, education |-> E2]

\* [ok, cleanedProjects, cleanedCertifications, cleanedEducation,
\*  deactivatedSkills, skills, projects, certifications, education]
cleanupOrphanedReferences(S, P, C, E) ==
  LET P2 == [p \in DOMAIN P |-> cleanProject(S, P[p])]
      C2 == [c \in DOMAIN C |-> cleanSkills(S, C[c])]
      E2 == [e \in DOMAIN E |-> cleanSkills(S, E[e])]
  IN cleanupResult(P, C, E, P2, C2, E2, deactivateUnreferenced(S, P2, C2, E2, 1, 0))

\* recalculateSkillVisibility once the Skill S[idx] is resolved and its
\* references refs are read.
recalculated(S, P, C, E, idx, refs) ==
  LET shouldBeActive == activeReferences(P, C, E, refs) > 0 \/ hasManualSource(S[idx])
  IN IF ~refs.ok THEN [ok |-> FALSE, found |-> TRUE, updated |-> FALSE, skills |-> S]
     ELSE IF S[idx].isActive # shouldBeActive
       THEN [ok |-> TRUE, found |-> TRUE, updated |-> TRUE,
             skills |-> [S EXCEPT ![idx].isActive = shouldBeActive]]
     ELSE [ok |-> TRUE, found |-> TRUE, updated |-> FALSE, skills |-> S]

\* [ok, found, updated, skills]
recalculateSkillVisibility(S, P, C, E, skillId) ==
  LET r == resolveSkill(S, skillId)
  IN IF ~r.ok \/ r.idx = 0
     THEN [ok |-> r.ok, found |-> FALSE, updated |-> FALSE, skills |-> S]
     ELSE recalculated(S, P, C, E, r.idx,
                       getSkillReferences(S, P, C, E, Str(IdString(S[r.idx].id))))

----------------------------------------------------------------------------
(* Route handlers that rewrite an entity's own skill list                  *)

\* String(_id) of an embedded entry: a Skill id, or a subdocument id, which
\* is the textual form of no Skill id.
SubdocIdString == [i \in 1..ObjectIdLen |-> "f"]
EntryIdString(id) == IF id = SubdocId THEN SubdocIdString ELSE IdString(id)

\* oldSkillIdsOrNames: each stored entry as a string, empty ones dropped.
RECURSIVE oldSkillIdsOrNames(_)
oldSkillIdsOrNames(q) ==
  IF q = <<>> THEN <<>>
  ELSE LET x == Head(q)
           one == IF x.kind = "str" THEN (IF x.name = <<>> THEN <<>> ELSE <<x.name>>)
                  ELSE IF x.id # 0 THEN <<EntryIdString(x.id)>>
                  ELSE IF x.name # <<>> THEN <<toLowerCase(x.name)>>
                  ELSE <<>>
       IN one \o oldSkillIdsOrNames(Tail(q))

\* req.body.skills.some(newS => ...): the old identifier is still submitted.
stillExists(newSkills, old) ==
  SomeIn(newSkills, LAMBDA x :
    IF x.kind = "str" THEN x.name # <<>> /\ toLowerCase(x.name) = toLowerCase(old)
    ELSE IF x.id # 0 THEN EntryIdString(x.id) = old
    ELSE IF x.name # <<>> THEN toLowerCase(x.name) = toLowerCase(old)
    ELSE FALSE)

\* for (const id of identifiers) await removeSkillSource(id, source, referenceId):
\* [ok, skills], stopping at the first call that throws.
RECURSIVE removeSources(_, _, _, _)
removeSources(S, identifiers, source, referenceId) ==
  IF identifiers = <<>> THEN [ok |-> TRUE, skills |-> S]
  ELSE LET r == removeSkillSource(S, Head(identifiers), source, referenceId)
       IN IF ~r.ok THEN r ELSE removeSources(r.skills, Tail(identifiers), source, referenceId)

\* The skill sync at the end of the Certification and Education update
\* routes: drop the sources of the old identifiers no longer submitted, then
\* syncSkills the submitted list.  A throw is caught and logged by the route.
resyncSkills(S, n, old, newSkills, source, referenceId) ==
  LET dropped == SelectSeq(old, LAMBDA o : ~stillExists(newSkills, o))
      r == removeSources(S, [i \in 1..Len(dropped) |-> Str(dropped[i])], source, referenceId)
      t == syncSkills(r.skills, n, newSkills, source, referenceId)
  IN IF ~r.ok THEN [skills |-> r.skills, nextId |-> n, ok |-> FALSE, ret |-> <<>>]
     ELSE t

\* A request body: has* tells whether the field was submitted.
Body(hasSkills, list, hasActive, active) ==
  [hasSkills |-> hasSkills, skills |-> list, hasIsActive |-> hasActive, isActive |-> active]

----------------------------------------------------------------------------
(* State                                                                   *)

ProjectIds == {"P1", "P2"}
CertificationIds == {"C1"}
EducationIds == {"E1"}

\* The bound on the number of requests in a run.
MaxCalls == 3

Call(op, args, ok, ret) == [op |-> op, args |-> args, ok |-> ok, ret |-> ret]
last == log[Len(log)]

\* A Project as its schema creates it: technologies are names, skills are
\* Skill ids, isActive defaults to true.
NewProject == [technologies |-> <<>>, skills |-> <<>>, isActive |-> TRUE]

\* A Certification: skills are embedded documents, isActive defaults to true.
NewCertification == [skills |-> <<>>, isActive |-> TRUE]

\* An Education record: skills is a mixed list (names, embedded objects, ids)
\* kept as written.
NewEducation == [skills |-> <<>>, isActive |-> TRUE]

\* The content entities exist, active and with empty skill lists; the Skill
\* collection is empty.
Init ==
  /\ skills = <<>>
  /\ projects = [p \in ProjectIds |-> NewProject]
  /\ certifications = [c \in CertificationIds |-> NewCertification]
  /\ education = [e \in EducationIds |-> NewEducation]
  /\ nextId = 1
  /\ log = <<>>
  /\ pending = <<>>

----------------------------------------------------------------------------
(* Operations                                                              *)

\* POST /skills/sync -> syncSkills(skills, source, referenceId)
SyncSkills(skillNames, source, referenceId) ==
  LET r == syncSkills(skills, nextId, skillNames, source, referenceId)
  IN /\ Len(log) < MaxCalls
     /\ UNCHANGED pending
     /\ skills' = r.skills
     /\ nextId' = r.nextId
     /\ UNCHANGED <<projects, certifications, education>>
     /\ log' = Append(log, Call("syncSkills", <<skillNames, source, referenceId>>, r.ok, r.ret))

\* POST /skills: a manually created Skill
CreateSkill(name, proficiency) ==
  LET exists == findOneByName(skills, trim(name)) # 0
      ok == trim(name) # <<>> /\ ~exists
  IN /\ Len(log) < MaxCalls
     /\ UNCHANGED pending
     /\ skills' = IF ok THEN Append(skills, NewSkill(nextId, name, proficiency,
                                                     <<Source("manual", NoRef)>>))
                   ELSE skills
     /\ nextId' = IF ok THEN nextId + 1 ELSE nextId
     /\ UNCHANGED <<projects, certifications, education>>
     /\ log' = Append(log, Call("createSkill", <<name>>, ok, <<>>))

RemoveSkillSource(skillId, source, referenceId) ==
  LET r == removeSkillSource(skills, skillId, source, referenceId)
  IN /\ Len(log) < MaxCalls
     /\ UNCHANGED pending
     /\ skills' = r.skills
     /\ UNCHANGED <<projects, certifications, education, nextId>>
     /\ log' = Append(log, Call("removeSkillSource", <<skillId, source, referenceId>>, r.ok, <<>>))

HideSkill(skillId) ==
  LET r == setSkillActive(skills, skillId, FALSE)
  IN /\ Len(log) < MaxCalls
     /\ UNCHANGED pending
     /\ skills' = r.skills
     /\ UNCHANGED <<projects, certifications, education, nextId>>
     /\ log' = Append(log, Call("hideSkill", <<skillId>>, r.ok, r.error))

ShowSkill(skillId) ==
  LET r == setSkillActive(skills, skillId, TRUE)
  IN /\ Len(log) < MaxCalls
     /\ UNCHANGED pending
     /\ skills' = r.skills
     /\ UNCHANGED <<projects, certifications, education, nextId>>
     /\ log' = Append(log, Call("showSkill", <<skillId>>, r.ok, r.error))

\* GET /skills/:id/references -> getSkillReferences(id): a read
GetSkillReferences(skillId) ==
  LET r == getSkillReferences(skills, projects, certifications, education, skillId)
  IN /\ Len(log) < MaxCalls
     /\ UNCHANGED pending
     /\ UNCHANGED <<skills, projects, certifications, education, nextId>>
     /\ log' = Append(log, Call("getSkillReferences", <<skillId>>, r.ok,
                                [projects |-> r.projects,
                                 certifications |-> r.certifications,
                                 education |-> r.education]))

\* canDeleteSkill(id): a read
CanDeleteSkill(skillId) ==
  LET r == canDeleteSkill(skills, projects, certifications, education, skillId)
  IN /\ Len(log) < MaxCalls
     /\ UNCHANGED pending
     /\ UNCHANGED <<skills, projects, certifications, education, nextId>>
     /\ log' = Append(log, Call("canDeleteSkill", <<skillId>>, r.ok,
                                [canDelete |-> r.canDelete,
                                 activeReferences |-> r.activeReferences,
                                 totalReferences |-> r.totalReferences]))

DeleteSkill(skillId, force) ==
  \E castPull \in BOOLEAN :
    LET r == deleteSkill(skills, projects, certifications, education, skillId, force, castPull)
    IN /\ Len(log) < MaxCalls
       /\ UNCHANGED pending
       /\ skills' = r.skills
       /\ projects' = r.projects
       /\ certifications' = r.certifications
       /\ education' = r.education
       /\ UNCHANGED nextId
       /\ log' = Append(log, Call("deleteSkill", <<skillId, force>>, r.ok,
                                  [error |-> r.error, blocking |-> r.blocking,
                                   deleted |-> r.deleted, name |-> r.name]))

LinkSkillToEntity(skillId, entityType, entityId) ==
  LET r == linkSkillToEntity(skills, projects, certifications, education,
                             skillId, entityType, entityId)
  IN /\ Len(log) < MaxCalls
     /\ UNCHANGED pending
     /\ skills' = r.skills
     /\ projects' = r.projects
     /\ certifications' = r.certifications
     /\ education' = r.education
     /\ UNCHANGED nextId
     /\ log' = Append(log, Call("linkSkillToEntity", <<skillId, entityType, entityId>>,
                                r.ok, r.error))

UnlinkSkillFromEntity(skillId, entityType, entityId) ==
  LET r == unlinkSkillFromEntity(skills, projects, certifications, education,
                                 skillId, entityType, entityId)
  IN /\ Len(log) < MaxCalls
     /\ UNCHANGED pending
     /\ skills' = r.skills
     /\ projects' = r.projects
     /\ certifications' = r.certifications
     /\ education' = r.education
     /\ UNCHANGED nextId
     /\ log' = Append(log, Call("unlinkSkillFromEntity", <<skillId, entityType, entityId>>,
                                r.ok, r.error))

RecalculateSkillVisibility(skillId) ==
  LET r == recalculateSkillVisibility(skills, projects, certifications, education, skillId)
  IN /\ Len(log) < MaxCalls
     /\ UNCHANGED pending
     /\ skills' = r.skills
     /\ UNCHANGED <<projects, certifications, education, nextId>>
     /\ log' = Append(log, Call("recalculateSkillVisibility", <<skillId>>, r.ok,
                                [found |-> r.found, updated |-> r.updated]))

\* POST /skills/cleanup-orphaned
CleanupOrphanedReferences ==
  LET r == cleanupOrphanedReferences(skills, projects, certifications, education)
  IN /\ Len(log) < MaxCalls
     /\ UNCHANGED pending
     /\ skills' = r.skills
     /\ projects' = r.projects
     /\ certifications' = r.certifications
     /\ education' = r.education
     /\ UNCHANGED nextId
     /\ log' = Append(log, Call("cleanupOrphanedReferences", <<>>, r.ok,
                                [cleanedProjects |-> r.cleanedProjects,
                                 cleanedCertifications |-> r.cleanedCertifications,
                                 cleanedEducation |-> r.cleanedEducation,
                                 deactivatedSkills |-> r.deactivatedSkills]))

\* skillManager.addSkillSource(...): SkillManager defines no such method, so
\* the call throws a TypeError and nothing is stored.
addSkillSource(S, tech, source, referenceId) == [ok |-> FALSE, skills |-> S]

\* PUT /projects/:id (body.skills stands for req.body.technologies)
UpdateProject(p, body) ==
  LET old == projects[p].technologies
      removedTech == SelectSeq(old, LAMBDA t : ~InSeq(t, body.skills))
      addedTech == SelectSeq(body.skills, LAMBDA t : ~InSeq(t, old))
      r == removeSources(skills, [i \in 1..Len(removedTech) |-> Str(removedTech[i])],
                         "project", p)
      a == IF r.ok /\ addedTech # <<>>
           THEN addSkillSource(r.skills, Head(addedTech), "project", p)
           ELSE r
  IN /\ Len(log) < MaxCalls
     /\ UNCHANGED pending
     /\ p \in DOMAIN projects
     /\ projects' = [projects EXCEPT
                       ![p].technologies = IF body.hasSkills THEN body.skills ELSE @,
                       ![p].isActive = IF body.hasIsActive THEN body.isActive ELSE @]
     /\ skills' = IF body.hasSkills THEN a.skills ELSE skills
     /\ UNCHANGED <<certifications, education, nextId>>
     /\ log' = Append(log, Call("updateProject", <<p, body>>, ~body.hasSkills \/ a.ok, <<>>))

\* PUT /certifications/:id: submitted skills are cast to embedded documents
\* (a string, or an object whose name trims to nothing, fails the save).
UpdateCertification(c, body) ==
  LET invalid == body.hasSkills
                 /\ SomeIn(body.skills, LAMBDA x : x.kind = "str" \/ trim(x.name) = <<>>)
      old == oldSkillIdsOrNames(certifications[c].skills)
      cast == [i \in 1..Len(body.skills) |-> certificationSkill(body.skills[i].name)]
      r == resyncSkills(skills, nextId, old, body.skills, "certification", c)
  IN /\ Len(log) < MaxCalls
     /\ UNCHANGED pending
     /\ c \in DOMAIN certifications
     /\ certifications' =
          IF invalid THEN certifications
          ELSE [certifications EXCEPT
                  ![c].skills = IF body.hasSkills THEN cast ELSE @,
                  ![c].isActive = IF body.hasIsActive THEN body.isActive ELSE @]
     /\ skills' = IF body.hasSkills /\ ~invalid THEN r.skills ELSE skills
     /\ nextId' = IF body.hasSkills /\ ~invalid THEN r.nextId ELSE nextId
     /\ UNCHANGED <<projects, education>>
     /\ log' = Append(log, Call("updateCertification", <<c, body>>, ~invalid, <<>>))

\* PUT /education/:id: the submitted fields are stored as they are.
UpdateEducation(e, body) ==
  LET old == oldSkillIdsOrNames(education[e].skills)
      r == resyncSkills(skills, nextId, old, body.skills, "education", e)
  IN /\ Len(log) < MaxCalls
     /\ UNCHANGED pending
     /\ e \in DOMAIN education
     /\ education' = [education EXCEPT
                        ![e].skills = IF body.hasSkills THEN body.skills ELSE @,
                        ![e].isActive = IF body.hasIsActive THEN body.isActive ELSE @]
     /\ skills' = IF body.hasSkills THEN r.skills ELSE skills
     /\ nextId' = IF body.hasSkills THEN r.nextId ELSE nextId
     /\ UNCHANGED <<projects, certifications>>
     /\ log' = Append(log, Call("updateEducation", <<e, body>>, TRUE, <<>>))

\* POST /skills/sync-all.  find({}) returns the documents in natural order.
ProjectOrder == <<"P1", "P2">>
CertificationOrder == <<"C1">>
EducationOrder == <<"E1">>

\* The first loop: every Project's technologies are synced and the ids
\* syncSkills returns become project.skills.  [ok, skills, nextId, projects]
RECURSIVE syncAllProjects(_, _, _, _)

\* The rest of the loop once syncSkills has answered r for the Project p.
syncedProject(r, P, p, rest) ==
  IF ~r.ok THEN [ok |-> FALSE, skills |-> r.skills, nextId |-> r.nextId, projects |-> P]
  ELSE syncAllProjects(r.skills, r.nextId,
                       IF r.ret # <<>> THEN [P EXCEPT ![p].skills = r.ret] ELSE P, rest)

technologyItems(tech) == [i \in 1..Len(tech) |-> Str(tech[i])]

syncAllProjects(S, n, P, todo) ==
  IF todo = <<>> THEN [ok |-> TRUE, skills |-> S, nextId |-> n, projects |-> P]
  ELSE IF Head(todo) \notin DOMAIN P \/ P[Head(todo)].technologies = <<>>
    THEN syncAllProjects(S, n, P, Tail(todo))
  ELSE syncedProject(syncSkills(S, n, technologyItems(P[Head(todo)].technologies),
                                "project", Head(todo)),
                     P, Head(todo), Tail(todo))

\* skills.map(s => typeof s === 'string' ? s : s.name).filter(Boolean)
skillNamesOf(q) ==
  LET named == SelectSeq(q, LAMBDA x : x.name # <<>>)
  IN [i \in 1..Len(named) |-> Str(named[i].name)]

\* The second and third loops, over the Certifications or the Education
\* records D.  [ok, skills, nextId]
RECURSIVE syncAllEntities(_, _, _, _, _)

\* The rest of the loop once syncSkills has answered r for one record.
syncedEntity(r, D, rest, source) ==
  IF ~r.ok THEN [ok |-> FALSE, skills |-> r.skills, nextId |-> r.nextId]
  ELSE syncAllEntities(r.skills, r.nextId, D, rest, source)

syncAllEntities(S, n, D, todo, source) ==
  IF todo = <<>> THEN [ok |-> TRUE, skills |-> S, nextId |-> n]
  ELSE IF Head(todo) \notin DOMAIN D \/ skillNamesOf(D[Head(todo)].skills) = <<>>
    THEN syncAllEntities(S, n, D, Tail(todo), source)
  ELSE syncedEntity(syncSkills(S, n, skillNamesOf(D[Head(todo)].skills), source, Head(todo)),
                    D, Tail(todo), source)

\* The third loop after the second answered b; a throw anywhere ends the
\* route with what was saved until then.  [ok, skills, nextId]
syncAllEducation(b, E) ==
  IF ~b.ok THEN b
  ELSE syncAllEntities(b.skills, b.nextId, E, EducationOrder, "education")

\* The second and third loops after the first answered a.
syncAllCertifications(a, C, E) ==
  IF ~a.ok THEN [ok |-> FALSE, skills |-> a.skills, nextId |-> a.nextId]
  ELSE syncAllEducation(syncAllEntities(a.skills, a.nextId, C, CertificationOrder,
                                        "certification"), E)

SyncAll ==
  LET a == syncAllProjects(skills, nextId, projects, ProjectOrder)
      c == syncAllCertifications(a, certifications, education)
  IN /\ Len(log) < MaxCalls
     /\ UNCHANGED pending
     /\ skills' = c.skills
     /\ nextId' = c.nextId
     /\ projects' = a.projects
     /\ UNCHANGED <<certifications, education>>
     /\ log' = Append(log, Call("syncAll", <<>>, c.ok, <<>>))

\* The cleanup loop of a delete route: for each stored entry
\* removeSkillSource(entry, source, id); a throw ends the loop, is caught and
\* logged, and the delete goes on.
removeEntrySources(S, entries, source, referenceId) ==
  removeSources(S, entries, source, referenceId).skills

\* DELETE /projects/:id
DeleteProject(p) ==
  LET tech == projects[p].technologies
  IN /\ Len(log) < MaxCalls
     /\ UNCHANGED pending
     /\ p \in DOMAIN projects
     /\ skills' = removeEntrySources(skills, [i \in 1..Len(tech) |-> Str(tech[i])], "project", p)
     /\ projects' = [q \in DOMAIN projects \ {p} |-> projects[q]]
     /\ UNCHANGED <<certifications, education, nextId>>
     /\ log' = Append(log, Call("deleteProject", <<p>>, TRUE, <<>>))

\* DELETE /certifications/:id
DeleteCertification(c) ==
  /\ Len(log) < MaxCalls
  /\ UNCHANGED pending
  /\ c \in DOMAIN certifications
  /\ skills' = removeEntrySources(skills, certifications[c].skills, "certification", c)
  /\ certifications' = [q \in DOMAIN certifications \ {c} |-> certifications[q]]
  /\ UNCHANGED <<projects, education, nextId>>
  /\ log' = Append(log, Call("deleteCertification", <<c>>, TRUE, <<>>))

\* DELETE /education/:id
DeleteEducation(e) ==
  /\ Len(log) < MaxCalls
  /\ UNCHANGED pending
  /\ e \in DOMAIN education
  /\ skills' = removeEntrySources(skills, education[e].skills, "education", e)
  /\ education' = [q \in DOMAIN education \ {e} |-> education[q]]
  /\ UNCHANGED <<projects, certifications, nextId>>
  /\ log' = Append(log, Call("deleteEducation", <<e>>, TRUE, <<>>))

\* Promise.all(skillsToUpdate.map(skill => recalculateSkillVisibility(skill._id)))
\* over the Skills at positions i..Len(S) that carry the source
\* (certification, c); every call runs, one that throws rejects the whole.
\* [ok, skills]
RECURSIVE recalculateSourced(_, _, _, _, _, _)
recalculateSourced(S, P, C, E, c, i) ==
  IF i > Len(S) THEN [ok |-> TRUE, skills |-> S]
  ELSE IF findSourceOf(S[i].sources, "certification", c) = 0
    THEN recalculateSourced(S, P, C, E, c, i + 1)
  ELSE LET r == recalculateSkillVisibility(S, P, C, E, Str(IdString(S[i].id)))
           rest == recalculateSourced(r.skills, P, C, E, c, i + 1)
       IN [ok |-> r.ok /\ rest.ok, skills |-> rest.skills]

\* PUT /certifications/:id/toggle-active
ToggleCertificationActive(c) ==
  LET flipped == [certifications EXCEPT ![c].isActive = ~@]
      r == IF certifications[c].skills # <<>>
           THEN recalculateSourced(skills, projects, flipped, education, c, 1)
           ELSE [ok |-> TRUE, skills |-> skills]
  IN /\ Len(log) < MaxCalls
     /\ UNCHANGED pending
     /\ c \in DOMAIN certifications
     /\ certifications' = flipped
     /\ skills' = r.skills
     /\ UNCHANGED <<projects, education, nextId>>
     /\ log' = Append(log, Call("toggleCertificationActive", <<c>>, r.ok, <<>>))

\* POST /skills/cleanup-names: the loop over the Skills read at its start
\* (todo); T is the store as saved so far.  [skills, cleaned]
RECURSIVE cleanupNames(_, _, _)
cleanupNames(T, todo, cleaned) ==
  IF todo = <<>> THEN [skills |-> T, cleaned |-> cleaned]
  ELSE
    LET skill == Head(todo)
        cleanName == cleanSkillName(skill.name)
        existing == FirstIndex(T, LAMBDA d : toLowerCase(d.name) = toLowerCase(cleanName)
                                            /\ d.id # skill.id)
        merged == [T EXCEPT ![existing].sources = @ \o skill.sources]
        renamed == [i \in 1..Len(T) |->
                      IF T[i].id = skill.id THEN [T[i] EXCEPT !.name = cleanName] ELSE T[i]]
    IN IF cleanName = skill.name \/ cleanName = <<>>
         THEN cleanupNames(T, Tail(todo), cleaned)
       ELSE IF existing # 0
         THEN cleanupNames(SelectSeq(merged, LAMBDA d : d.id # skill.id), Tail(todo),
                           cleaned + 1)
       ELSE cleanupNames(renamed, Tail(todo), cleaned + 1)

CleanupNames ==
  LET r == cleanupNames(skills, skills, 0)
  IN /\ Len(log) < MaxCalls
     /\ UNCHANGED pending
     /\ skills' = r.skills
     /\ UNCHANGED <<projects, certifications, education, nextId>>
     /\ log' = Append(log, Call("cleanupNames", <<>>, TRUE, r.cleaned))

----------------------------------------------------------------------------
(* Inputs                                                                  *)

React == <<"R", "e", "a", "c", "t">>
Vue == <<"V", "u", "e">>
CPlusPlus == <<"C", "+", "+">>

Quoted == Str(<<DQ>> \o React \o <<DQ>>)            \* "React" in double quotes
Lowered == Str(toLowerCase(React))                  \* react
Padded == Str(<<SP>> \o React \o <<SP>>)            \* React between spaces
Nested == Str(<<DQ, SP, SQ>> \o React \o <<SQ, SP, DQ>>)  \* " 'React' "
QuotedObject == Obj(<<DQ>> \o React \o <<DQ>>, 0)   \* { name: '"React"' }
FirstId == Str(IdString(1))                         \* the id of the first Skill

SkillsBody(list) == Body(TRUE, list, FALSE, FALSE)
ActiveBody(b) == Body(FALSE, <<>>, TRUE, b)

OwnTargets == {<<"project", "P1">>, <<"certification", "C1">>, <<"education", "E1">>}

----------------------------------------------------------------------------
(* Specifications                                                          *)

\* Sequential syncSkills calls on an empty store.
SyncOnlyLists ==
  {<<Str(React)>>, <<Quoted>>, <<Lowered>>, <<Padded>>, <<Nested>>, <<QuotedObject>>,
   <<FirstId>>, <<Str(Vue), Lowered>>, <<Str(CPlusPlus), Str(React)>>}

NextSyncOnly ==
  \E l \in SyncOnlyLists, t \in OwnTargets : SyncSkills(l, t[1], t[2])

SpecSyncOnly == Init /\ [][NextSyncOnly]_vars

\* Source bookkeeping: syncSkills, link, unlink, removeSkillSource, manual
\* creation, with any mix of source types and reference ids.
MixedTargets == OwnTargets \cup {<<"certification", "P1">>}

NextSources ==
  \/ \E l \in {<<Str(React)>>, <<Lowered>>, <<Str(React), Str(Vue)>>}, t \in MixedTargets :
       SyncSkills(l, t[1], t[2])
  \/ CreateSkill(React, "Intermediate")
  \/ \E i \in {Str(React), FirstId}, t \in OwnTargets : LinkSkillToEntity(i, t[1], t[2])
  \/ \E t \in OwnTargets : UnlinkSkillFromEntity(Str(React), t[1], t[2])
  \/ \E t \in MixedTargets : RemoveSkillSource(Str(React), t[1], t[2])

SpecSources == Init /\ [][NextSources]_vars

\* Cascades: entity updates, linking, deletion, visibility, the orphan sweep.
NextCascade ==
  \/ SyncSkills(<<Lowered>>, "certification", "C1")
  \/ SyncSkills(<<Str(React)>>, "project", "P1")
  \/ \E n \in {React, CPlusPlus} : CreateSkill(n, "Intermediate")
  \/ HideSkill(Str(React))
  \/ \E b \in {SkillsBody(<<React, Vue>>), SkillsBody(<<>>), ActiveBody(FALSE), ActiveBody(TRUE)} :
       UpdateProject("P1", b)
  \/ \E b \in {SkillsBody(<<Obj(React, 0)>>), ActiveBody(FALSE)} : UpdateCertification("C1", b)
  \/ \E b \in {SkillsBody(<<Str(React)>>), SkillsBody(<<Obj(React, 0)>>), ActiveBody(FALSE)} :
       UpdateEducation("E1", b)
  \/ \E t \in OwnTargets : LinkSkillToEntity(Str(React), t[1], t[2])
  \/ \E force \in BOOLEAN : DeleteSkill(Str(React), force)
  \/ RecalculateSkillVisibility(Str(React))
  \/ CleanupOrphanedReferences

SpecCascade == Init /\ [][NextCascade]_vars

\* Visibility and sources of a Skill that earlier requests left behind:
\* the Skill React as syncSkills created it, with the sources (project, P1)
\* and (education, E1), the first of them, or none left after
\* removeSkillSource, and shown or hidden by showSkill / hideSkill.
StoredSources == {<<>>, <<Source("project", "P1")>>,
                  <<Source("project", "P1"), Source("education", "E1")>>}

InitStored ==
  /\ \E s \in StoredSources, a \in BOOLEAN :
       skills = <<[NewSkill(1, React, "Beginner", s) EXCEPT !.isActive = a]>>
  /\ projects = [p \in ProjectIds |-> NewProject]
  /\ certifications = [c \in CertificationIds |-> NewCertification]
  /\ education = [e \in EducationIds |-> NewEducation]
  /\ nextId = 2
  /\ log = <<>>
  /\ pending = <<>>

NextStored ==
  \/ \E t \in MixedTargets : RemoveSkillSource(Str(React), t[1], t[2])
  \/ RemoveSkillSource(Str(Vue), "project", "P1")
  \/ HideSkill(Str(React))
  \/ ShowSkill(FirstId)
  \/ \E t \in OwnTargets : SyncSkills(<<Lowered>>, t[1], t[2])
  \/ \E t \in OwnTargets : LinkSkillToEntity(Str(React), t[1], t[2])
  \/ UpdateProject("P1", ActiveBody(FALSE))

SpecStored == InitStored /\ [][NextStored]_vars

\* Calls whose identifier may name no Skill: a name, a name holding pattern
\* characters, and the textual form of an id.
LooseIds == {Str(Vue), Str(CPlusPlus), FirstId}

\* Objects carrying both a name and an id: the name of no Skill with the id
\* of the first Skill, and the first Skill's name in another casing with an
\* id no Skill has.
NamedObjects == {Obj(React, 1), Obj(toLowerCase(Vue), 9)}

NextLoose ==
  \/ SyncSkills(<<Str(Vue)>>, "project", "P1")
  \/ \E i \in LooseIds : HideSkill(i)
  \/ \E i \in LooseIds : ShowSkill(i)
  \/ \E i \in LooseIds, force \in BOOLEAN : DeleteSkill(i, force)
  \/ \E i \in LooseIds : LinkSkillToEntity(i, "project", "P1")
  \/ \E i \in LooseIds : UnlinkSkillFromEntity(i, "project", "P1")
  \/ \E i \in LooseIds : GetSkillReferences(i)
  \/ \E i \in LooseIds : CanDeleteSkill(i)
  \/ \E i \in NamedObjects : RemoveSkillSource(i, "project", "P1")

SpecLoose == Init /\ [][NextLoose]_vars

\* Linking and unlinking one Skill, next to entries of another Skill in the
\* same lists and to sources that syncSkills recorded beforehand.
NextLinks ==
  \/ CreateSkill(React, "Intermediate")
  \/ \E t \in OwnTargets : SyncSkills(<<Lowered>>, t[1], t[2])
  \/ \E t \in OwnTargets : LinkSkillToEntity(Str(React), t[1], t[2])
  \/ \E t \in OwnTargets : UnlinkSkillFromEntity(Str(React), t[1], t[2])
  \/ UpdateProject("P1", SkillsBody(<<Vue>>))
  \/ UpdateEducation("E1", SkillsBody(<<Str(Vue)>>))

SpecLinks == Init /\ [][NextLinks]_vars

----------------------------------------------------------------------------
(* syncSkills step by step: the second loop awaits the exact lookup, the   *)
(* pattern lookup and the save, and other calls run in between             *)

\* Number of step-by-step syncSkills calls of a run, in flight together or
\* one after the other.
MaxRacers == 2

\* A call in flight: where it stands, the name it handles, the Skill document
\* its lookup loaded (id = 0: none), and whether it ran without another call
\* in flight (kept for the properties).
Racer(pc, name, source, referenceId, doc, alone) ==
  [pc |-> pc, name |-> name, source |-> source, referenceId |-> referenceId,
   doc |-> doc, alone |-> alone]

NoDoc == NewSkill(0, <<>>, "Beginner", <<>>)

InFlight(q) == {c \in 1..Len(q) : q[c].pc # "done"}

\* syncSkills([item], source, referenceId) enters: the first loop resolves
\* the item to one name.
SyncBegin(item, source, referenceId) ==
  LET names == resolveNames(skills, <<item>>, <<>>)
  IN /\ Len(log) + Cardinality(InFlight(pending)) < MaxCalls
     /\ Len(pending) < MaxRacers
     /\ Len(names) = 1
     /\ pending' = Append([c \in 1..Len(pending) |->
                             IF pending[c].pc # "done"
                             THEN [pending[c] EXCEPT !.alone = FALSE] ELSE pending[c]],
                          Racer("findOne", names[1], source, referenceId, NoDoc,
                                InFlight(pending) = {}))
     /\ UNCHANGED <<skills, projects, certifications, education, nextId, log>>

\* await Skill.findOne({ name: skillName })
SyncFindOne(c) ==
  LET i == findOneByName(skills, pending[c].name)
  IN /\ c \in 1..Len(pending) /\ pending[c].pc = "findOne"
     /\ pending' = [pending EXCEPT ![c].pc = IF i # 0 THEN "save" ELSE "findOneRegExp",
                                   ![c].doc = IF i # 0 THEN skills[i] ELSE NoDoc]
     /\ UNCHANGED <<skills, projects, certifications, education, nextId, log>>

\* await Skill.findOne({ name: { $regex: new RegExp(`^${skillName}$`, 'i') } })
SyncFindOneRegExp(c) ==
  LET valid == RegExpValid(pending[c].name)
      i == findOneByRegExp(skills, pending[c].name)
  IN /\ c \in 1..Len(pending) /\ pending[c].pc = "findOneRegExp"
     /\ pending' = [pending EXCEPT ![c].pc = IF valid THEN "save" ELSE "done",
                                   ![c].doc = IF valid /\ i # 0 THEN skills[i] ELSE NoDoc]
     /\ log' = IF valid THEN log
               ELSE Append(log, Call("syncSkills",
                                     << <<Str(pending[c].name)>>, pending[c].source,
                                        pending[c].referenceId >>, FALSE, <<>>))
     /\ UNCHANGED <<skills, projects, certifications, education, nextId>>

\* new Skill({...}) or skill.sources.push(...), then await skill.save(): the
\* decision rests on the document as the lookup loaded it.
SyncSave(c) ==
  LET r == pending[c]
      cleanName == cleanSkillName(r.name)
      found == findSourceByRef(r.doc.sources, r.referenceId)
      i == findById(skills, r.doc.id)
      create == r.doc.id = 0 /\ cleanName # <<>>
      push == r.doc.id # 0 /\ found = "none" /\ i # 0
      ok == r.doc.id = 0 \/ found # "throw"
  IN /\ c \in 1..Len(pending) /\ r.pc = "save"
     /\ skills' = IF create
                  THEN Append(skills, NewSkill(nextId, cleanName, "Beginner",
                                               <<Source(r.source, r.referenceId)>>))
                  ELSE IF push
                  THEN [skills EXCEPT ![i].sources = Append(@, Source(r.source, r.referenceId))]
                  ELSE skills
     /\ nextId' = IF create THEN nextId + 1 ELSE nextId
     /\ pending' = [pending EXCEPT ![c].pc = "done"]
     /\ log' = Append(log, Call("syncSkills", << <<Str(r.name)>>, r.source, r.referenceId >>, ok,
                                IF create THEN <<nextId>>
                                ELSE IF r.doc.id # 0 /\ ok THEN <<r.doc.id>> ELSE <<>>))
     /\ UNCHANGED <<projects, certifications, education>>

NextRace ==
  \/ \E item \in {Str(React), Lowered}, t \in {<<"project", "P1">>, <<"education", "E1">>} :
       SyncBegin(item, t[1], t[2])
  \/ \E c \in 1..MaxRacers : SyncFindOne(c)
  \/ \E c \in 1..MaxRacers : SyncFindOneRegExp(c)
  \/ \E c \in 1..MaxRacers : SyncSave(c)

SpecRace == Init /\ [][NextRace]_vars

\* The routes that rewrite, toggle or delete an entity, on Skills that manual
\* creation, linking and earlier updates left behind.
NextRoutes ==
  \/ \E n \in {React, CPlusPlus} : CreateSkill(n, "Intermediate")
  \/ \E i \in {Str(React), Str(CPlusPlus)}, t \in {<<"project", "P1">>, <<"education", "E1">>} :
       LinkSkillToEntity(i, t[1], t[2])
  \/ \E b \in {SkillsBody(<<React, Vue>>), SkillsBody(<<React>>), SkillsBody(<<>>)} :
       UpdateProject("P1", b)
  \/ \E b \in {SkillsBody(<<Obj(React, 0), Obj(Vue, 0)>>), SkillsBody(<<Obj(Vue, 0)>>),
               SkillsBody(<<>>)} : UpdateCertification("C1", b)
  \/ \E b \in {SkillsBody(<<Str(React), Obj(Vue, 0)>>), SkillsBody(<<Obj(Vue, 0)>>),
               SkillsBody(<<>>)} : UpdateEducation("E1", b)
  \/ SyncAll
  \/ DeleteProject("P1")
  \/ DeleteCertification("C1")
  \/ DeleteEducation("E1")
  \/ ToggleCertificationActive("C1")
  \/ \E i \in {Str(React), Str(CPlusPlus)}, t \in {<<"project", "P1">>, <<"education", "E1">>} :
       UnlinkSkillFromEntity(i, t[1], t[2])

SpecRoutes == Init /\ [][NextRoutes]_vars

\* Deleting an entity whose skills earlier requests stored and synced; no
\* request shortens a list.
NextDelete ==
  \/ \E n \in {React, CPlusPlus} : CreateSkill(n, "Intermediate")
  \/ \E t \in {<<"project", "P1">>, <<"education", "E1">>} : LinkSkillToEntity(FirstId, t[1], t[2])
  \/ \E l \in {<<React>>, <<Quoted.name>>} : UpdateProject("P1", SkillsBody(l))
  \/ UpdateCertification("C1", SkillsBody(<<Obj(React, 0)>>))
  \/ \E l \in {<<Str(React)>>, <<Quoted>>, <<Obj(React, 0)>>} : UpdateEducation("E1", SkillsBody(l))
  \/ SyncAll
  \/ DeleteProject("P1")
  \/ DeleteCertification("C1")
  \/ DeleteEducation("E1")

SpecDelete == Init /\ [][NextDelete]_vars

\* The name cleanup on a store where POST /skills created the Skill "React"
\* written in double quotes (id 1) and the Skill React (id 2), and entities
\* then came to reference them.
InitDirty ==
  /\ skills = <<NewSkill(1, Quoted.name, "Intermediate", <<Source("manual", NoRef)>>),
                NewSkill(2, React, "Intermediate", <<Source("manual", NoRef)>>)>>
  /\ projects = [p \in ProjectIds |-> NewProject]
  /\ certifications = [c \in CertificationIds |-> NewCertification]
  /\ education = [e \in EducationIds |-> NewEducation]
  /\ nextId = 3
  /\ log = <<>>
  /\ pending = <<>>

NextMerge ==
  \/ \E t \in {<<"project", "P1">>, <<"education", "E1">>} : LinkSkillToEntity(FirstId, t[1], t[2])
  \/ \E l \in {<<FirstId>>, <<Str(React)>>, <<Quoted>>} : UpdateEducation("E1", SkillsBody(l))
  \/ \E l \in {<<Str(React)>>, <<Str(Vue)>>} : SyncSkills(l, "project", "P1")
  \/ SyncAll
  \/ CleanupNames

SpecMerge == InitDirty /\ [][NextMerge]_vars

Next ==
  \/ NextSyncOnly \/ NextSources \/ NextCascade \/ NextStored \/ NextLoose \/ NextLinks
  \/ NextRace \/ NextRoutes \/ NextDelete \/ NextMerge

Spec == Init /\ [][Next]_vars

----------------------------------------------------------------------------
(* Vocabulary of the properties                                            *)

SameName(a, b) == toLowerCase(a) = toLowerCase(b)
CleanFold(name) == toLowerCase(cleanSkillName(name))

\* An entry of a Certification's or an Education's skills matches the Skill d
\* by id (an embedded _id, or a string spelling the id) or by name.
EntryMatches(x, d) ==
  \/ x.kind = "obj" /\ x.id = d.id
  \/ x.kind = "str" /\ x.name = IdString(d.id)
  \/ SameName(x.name, d.name)

ProjectLists(doc, d) ==
  InSeq(d.id, doc.skills) \/ SomeIn(doc.technologies, LAMBDA t : SameName(t, d.name))

EntityLists(doc, d) == SomeIn(doc.skills, LAMBDA x : EntryMatches(x, d))

Listed(P, C, E, d) ==
  \/ \E p \in DOMAIN P : ProjectLists(P[p], d)
  \/ \E c \in DOMAIN C : EntityLists(C[c], d)
  \/ \E e \in DOMAIN E : EntityLists(E[e], d)

ActivelyListed(P, C, E, d) ==
  \/ \E p \in DOMAIN P : P[p].isActive /\ ProjectLists(P[p], d)
  \/ \E c \in DOMAIN C : C[c].isActive /\ EntityLists(C[c], d)
  \/ \E e \in DOMAIN E : E[e].isActive /\ EntityLists(E[e], d)

HasSource(d, t, r) == SomeIn(d.sources, LAMBDA x : x.type = t /\ x.referenceId = r)

\* Every identifier an entity holds matches some Skill of S.
AllResolve(S, P, C, E) ==
  /\ \A p \in DOMAIN P : \A k \in 1..Len(P[p].skills) : findById(S, P[p].skills[k]) # 0
  /\ \A p \in DOMAIN P : \A k \in 1..Len(P[p].technologies) :
        SomeIn(S, LAMBDA d : SameName(P[p].technologies[k], d.name))
  /\ \A c \in DOMAIN C : \A k \in 1..Len(C[c].skills) :
        SomeIn(S, LAMBDA d : EntryMatches(C[c].skills[k], d))
  /\ \A e \in DOMAIN E : \A k \in 1..Len(E[e].skills) :
        SomeIn(S, LAMBDA d : EntryMatches(E[e].skills[k], d))

\* The step just taken is a call of op.
Called(op) == log' # log /\ last'.op = op

----------------------------------------------------------------------------
(* Properties                                                              *)

\* C1: when deleteSkill(S, force = true) completes, no Project, Certification
\* or Education holds an entry matching S by id or by case-insensitive name,
\* and the Skill record S no longer exists.
C1_ForcedDeleteLeavesNoReference ==
  [][(Called("deleteSkill") /\ last'.args[2] /\ last'.ok)
       => LET d == [id |-> last'.ret.deleted, name |-> last'.ret.name]
          IN /\ ~Listed(projects', certifications', education', d)
             /\ findById(skills', d.id) = 0]_vars

\* C2: every Skill's sources hold at most one entry per (type, referenceId).
C2_OneSourcePerLink ==
  \A i \in 1..Len(skills) : \A a, b \in 1..Len(skills[i].sources) :
    skills[i].sources[a] = skills[i].sources[b] => a = b

\* C2's case: syncSkills recorded (project, P1) on React and a later
\* linkSkillToEntity of React to the same project succeeded.
C2_LinkAfterSync ==
  /\ Len(log) = 2
  /\ log[1].op = "syncSkills" /\ log[1].args = << <<Str(React)>>, "project", "P1" >>
  /\ log[2].op = "linkSkillToEntity" /\ log[2].args = <<Str(React), "project", "P1">>
  /\ log[2].ok
  /\ HasSource(skills[1], "project", "P1")

\* C3: no two Skill records have names that are equal after cleaning and
\* case-folding.
C3_NamesUnique ==
  \A i, j \in 1..Len(skills) :
    CleanFold(skills[i].name) = CleanFold(skills[j].name) => i = j

\* C4: when syncSkills(identifiers, T, R) returns, every Skill it returns has
\* a sources entry (T, R).
C4_ReturnedSkillsCarrySource ==
  [][(Called("syncSkills") /\ last'.ok)
       => \A k \in 1..Len(last'.ret) :
            HasSource(skills'[findById(skills', last'.ret[k])], last'.args[2], last'.args[3])]_vars

\* C5: a second syncSkills([name], 'project', P) right after the first leaves
\* exactly one Skill for name, carrying exactly one (project, P) source, and
\* changes neither the Skill records nor any sources list.
C5_SecondSyncChangesNothing ==
  [][(/\ Len(log) >= 1 /\ last.op = "syncSkills" /\ last.ok
      /\ Called("syncSkills") /\ last'.ok /\ last'.args = last.args
      /\ Len(last.args[1]) = 1 /\ last.args[1][1].kind = "str"
      /\ ~looksLikeObjectId(last.args[1][1].name)
      /\ last.args[2] = "project")
       => LET name == cleanSkillName(last.args[1][1].name)
              hits == {i \in 1..Len(skills') : SameName(cleanSkillName(skills'[i].name), name)}
          IN /\ skills' = skills
             /\ Cardinality(hits) = 1
             /\ \A i \in hits :
                  Len(SelectSeq(skills'[i].sources,
                                LAMBDA x : x = Source("project", last.args[3]))) = 1]_vars

\* C6: syncSkills from three different entities with the name written
\* '"React"', 'react' and ' React ' (in any order) leaves one Skill record,
\* whose sources are exactly three, one per entity.
C6_ThreeFormsOneSkill ==
  (/\ Len(log) = 3
   /\ {log[k].args[1] : k \in 1..3} = {<<Quoted>>, <<Lowered>>, <<Padded>>}
   /\ Cardinality({<<log[k].args[2], log[k].args[3]>> : k \in 1..3}) = 3)
    => /\ Len(skills) = 1
       /\ Len(skills[1].sources) = 3
       /\ \A k \in 1..3 : HasSource(skills[1], log[k].args[2], log[k].args[3])

\* C6's case: the three forms have been synchronised from a project, a
\* certification and an education record, the lower-cased form first.
C6_ThreeFormsSynced ==
  /\ Len(log) = 3
  /\ log[1].args = << <<Lowered>>, "project", "P1" >>
  /\ log[2].args = << <<Quoted>>, "certification", "C1" >>
  /\ log[3].args = << <<Padded>>, "education", "E1" >>
  /\ \A k \in 1..3 : log[k].ok
  /\ Len(skills) = 1

\* C7: deleteSkill(S) without force is rejected, reporting a positive number
\* of blocking references and changing neither the Skill records nor any
\* entity, while an active entity lists S; it succeeds and deletes S when no
\* active entity lists S.
C7_DeleteBlockedWhileActivelyListed ==
  [][(/\ Called("deleteSkill") /\ ~last'.args[2]
      /\ resolveSkill(skills, last'.args[1]).ok
      /\ resolveSkill(skills, last'.args[1]).idx # 0)
       => LET d == skills[resolveSkill(skills, last'.args[1]).idx]
          IN IF ActivelyListed(projects, certifications, education, d)
             THEN /\ ~last'.ok
                  /\ last'.ret.error = "Cannot delete skill"
                  /\ last'.ret.blocking >= 1
                  /\ UNCHANGED <<skills, projects, certifications, education>>
             ELSE /\ last'.ok
                  /\ findById(skills', d.id) = 0]_vars

\* C8: when recalculateSkillVisibility(S) returns for an existing Skill S,
\* S.isActive = (an active entity lists S) or (S has a manual source), and
\* updated is true exactly when the stored flag changed.
C8_RecalculatedVisibility ==
  [][(Called("recalculateSkillVisibility") /\ last'.ok /\ last'.ret.found)
       => LET i == resolveSkill(skills, last'.args[1]).idx
          IN /\ skills'[i].isActive =
                  (ActivelyListed(projects, certifications, education, skills[i])
                   \/ hasManualSource(skills[i]))
             /\ last'.ret.updated = (skills'[i].isActive # skills[i].isActive)]_vars

\* C9: when cleanupOrphanedReferences() completes, every Skill's isActive =
\* (an active entity lists it) or (it has a manual source).
C9_CleanupConvergesVisibility ==
  [][(Called("cleanupOrphanedReferences") /\ last'.ok)
       => \A i \in 1..Len(skills') :
            skills'[i].isActive =
              (ActivelyListed(projects', certifications', education', skills'[i])
               \/ hasManualSource(skills'[i]))]_vars

\* C10: when cleanupOrphanedReferences() completes, every identifier held by
\* every Project, Certification and Education matches an existing Skill, and
\* each cleaned count is the number of entities of that type whose lists
\* changed.
C10_CleanupLeavesNoOrphan ==
  [][(Called("cleanupOrphanedReferences") /\ last'.ok)
       => /\ AllResolve(skills', projects', certifications', education')
          /\ last'.ret.cleanedProjects =
               Cardinality({p \in DOMAIN projects :
                              \/ projects'[p].skills # projects[p].skills
                              \/ projects'[p].technologies # projects[p].technologies})
          /\ last'.ret.cleanedCertifications =
               Cardinality({c \in DOMAIN certifications :
                              certifications'[c].skills # certifications[c].skills})
          /\ last'.ret.cleanedEducation =
               Cardinality({e \in DOMAIN education :
                              education'[e].skills # education[e].skills})]_vars

\* C10's case: a Project holds two technology names of which only one has a
\* Skill record; the sweep stripped the other and counted the Project once.
C10_SweptProject ==
  /\ Len(log) = 3
  /\ log[1].op = "updateProject" /\ Len(log[1].args[2].skills) = 2
  /\ log[2].op = "syncSkills"
  /\ log[3].op = "cleanupOrphanedReferences" /\ log[3].ok
  /\ log[3].ret.cleanedProjects = 1
  /\ Len(projects["P1"].technologies) = 1
  /\ Len(skills) = 1

\* C11: cleanupOrphanedReferences() keeps every entry that resolves to an
\* existing Skill: each Project technologies name and skills id, and each
\* Certification or Education entry, that matches a Skill by id or by
\* case-insensitive name before the sweep is still in its list afterwards.
C11_CleanupKeepsResolvingEntries ==
  [][(Called("cleanupOrphanedReferences") /\ last'.ok)
       => /\ \A p \in DOMAIN projects :
               /\ \A k \in 1..Len(projects[p].technologies) :
                    SomeIn(skills, LAMBDA d : SameName(projects[p].technologies[k], d.name))
                      => InSeq(projects[p].technologies[k], projects'[p].technologies)
               /\ \A k \in 1..Len(projects[p].skills) :
                    findById(skills, projects[p].skills[k]) # 0
                      => InSeq(projects[p].skills[k], projects'[p].skills)
          /\ \A c \in DOMAIN certifications : \A k \in 1..Len(certifications[c].skills) :
               SomeIn(skills, LAMBDA d : EntryMatches(certifications[c].skills[k], d))
                 => InSeq(certifications[c].skills[k], certifications'[c].skills)
          /\ \A e \in DOMAIN education : \A k \in 1..Len(education[e].skills) :
               SomeIn(skills, LAMBDA d : EntryMatches(education[e].skills[k], d))
                 => InSeq(education[e].skills[k], education'[e].skills)]_vars

\* C12: when cleanupOrphanedReferences() completes, every sources entry of
\* type project, certification or education names an existing entity of that
\* type which lists the Skill.
C12_CleanupLeavesNoStaleSource ==
  [][(Called("cleanupOrphanedReferences") /\ last'.ok)
       => \A i \in 1..Len(skills') : \A k \in 1..Len(skills'[i].sources) :
            LET s == skills'[i].sources[k]
            IN /\ s.type = "project"
                    => /\ s.referenceId \in DOMAIN projects'
                       /\ ProjectLists(projects'[s.referenceId], skills'[i])
               /\ s.type = "certification"
                    => /\ s.referenceId \in DOMAIN certifications'
                       /\ EntityLists(certifications'[s.referenceId], skills'[i])
               /\ s.type = "education"
                    => /\ s.referenceId \in DOMAIN education'
                       /\ EntityLists(education'[s.referenceId], skills'[i])]_vars

\* The entity r of type t lists the Skill d.
ListsAt(P, C, E, t, r, d) ==
  \/ t = "project" /\ r \in DOMAIN P /\ ProjectLists(P[r], d)
  \/ t = "certification" /\ r \in DOMAIN C /\ EntityLists(C[r], d)
  \/ t = "education" /\ r \in DOMAIN E /\ EntityLists(E[r], d)

\* The outcome u of unlinkSkillFromEntity(S, t, r) gives back the lists the
\* entities had before the link (P, C, E) and the Skill i its sources before
\* the link (S[i]) without (t, r) entries; no other Skill differs.
Restores(u, S, P, C, E, i, t, r) ==
  /\ u.ok
  /\ ~ListsAt(u.projects, u.certifications, u.education, t, r, u.skills[i])
  /\ ~HasSource(u.skills[i], t, r)
  /\ u.skills[i].sources = withoutSource(S[i].sources, t, r)
  /\ u.projects = P
  /\ u.certifications = C
  /\ u.education = E
  /\ \A j \in 1..Len(S) : j # i => u.skills[j] = S[j]

\* The Skill S[i] is resolved, the entity r of type t exists and does not
\* list it.
Unlisted(S, P, C, E, i, t, r) ==
  /\ i # 0
  /\ entityExists(P, C, E, t, r)
  /\ ~ListsAt(P, C, E, t, r, S[i])

C14_SecondLinkRejected ==
  [][(/\ Len(log) >= 1 /\ last.op = "linkSkillToEntity" /\ last.ok
      /\ Called("linkSkillToEntity") /\ last'.args = last.args)
       => /\ ~last'.ok
          /\ last'.ret = "Skill is already linked to this entity"
          /\ UNCHANGED <<skills, projects, certifications, education>>]_vars

\* C15: for every Skill S, canDeleteSkill(S).canDelete is true exactly when
\* no active entity lists S (Project technologies names and skills ids,
\* Certification embedded objects, Education strings, embedded objects and
\* ids), and totalReferences is the number of entities listing S.
C15_CanDeleteIffNotActivelyListed ==
  \A i \in 1..Len(skills) :
    LET d == skills[i]
        r == canDeleteSkill(skills, projects, certifications, education, Str(IdString(d.id)))
    IN /\ r.ok
       /\ r.canDelete = ~ActivelyListed(projects, certifications, education, d)
       /\ r.totalReferences =
            Cardinality({p \in DOMAIN projects : ProjectLists(projects[p], d)})
            + Cardinality({c \in DOMAIN certifications : EntityLists(certifications[c], d)})
            + Cardinality({e \in DOMAIN education : EntityLists(education[e], d)})

\* C16: removeSkillSource(S, T, R) on an existing Skill S removes from
\* S.sources exactly the entries equal to (T, R), sets S.isActive to false
\* only when an entry was removed and none is left, and changes nothing else;
\* when S has no (T, R) entry, S is the same after the call as before.
C16_RemoveSourceFrame ==
  [][(/\ Called("removeSkillSource")
      /\ resolveSkill(skills, last'.args[1]).ok
      /\ resolveSkill(skills, last'.args[1]).idx # 0)
       => LET i == resolveSkill(skills, last'.args[1]).idx
              t == last'.args[2]
              r == last'.args[3]
              kept == SelectSeq(skills[i].sources, LAMBDA x : x # Source(t, r))
          IN /\ last'.ok
             /\ skills'[i].sources = kept
             /\ skills'[i].isActive =
                  IF HasSource(skills[i], t, r) /\ kept = <<>> THEN FALSE
                  ELSE skills[i].isActive
             /\ ~HasSource(skills[i], t, r) => skills'[i] = skills[i]
             /\ Len(skills') = Len(skills)
             /\ \A j \in 1..Len(skills) : j # i => skills'[j] = skills[j]
             /\ UNCHANGED <<projects, certifications, education>>]_vars

\* The entity r of type t exists and is active.
ActiveEntity(P, C, E, t, r) ==
  \/ t = "project" /\ r \in DOMAIN P /\ P[r].isActive
  \/ t = "certification" /\ r \in DOMAIN C /\ C[r].isActive
  \/ t = "education" /\ r \in DOMAIN E /\ E[r].isActive

\* C17: when syncSkills(names, T, R) returns an existing Skill that was
\* inactive and had no (T, R) source, or linkSkillToEntity(S, T, R) succeeds
\* on an inactive Skill S, and the entity R of type T is active, the Skill is
\* active afterwards.
C17_NewActiveReferenceActivates ==
  [][/\ (/\ Called("syncSkills") /\ last'.ok
         /\ ActiveEntity(projects, certifications, education, last'.args[2], last'.args[3]))
          => \A k \in 1..Len(last'.ret) :
               LET i == findById(skills, last'.ret[k])
               IN (/\ i # 0 /\ ~skills[i].isActive
                   /\ ~HasSource(skills[i], last'.args[2], last'.args[3]))
                    => skills'[i].isActive
     /\ (/\ Called("linkSkillToEntity") /\ last'.ok
         /\ ActiveEntity(projects, certifications, education, last'.args[2], last'.args[3])
         /\ ~skills[resolveSkill(skills, last'.args[1]).idx].isActive)
          => skills'[resolveSkill(skills, last'.args[1]).idx].isActive]_vars

\* An entry of a syncSkills list that is a plain skill name: a string that
\* cleaning leaves as it is, without pattern characters, not spelling an id.
PlainName(item) ==
  /\ item.kind = "str" /\ item.name # <<>>
  /\ cleanSkillName(item.name) = item.name
  /\ \A k \in 1..Len(item.name) : item.name[k] \notin {Plus, "(", ")"}
  /\ ~looksLikeObjectId(item.name)

\* C18: every call of syncSkills returns, and every entry of its list that
\* is a plain skill name has afterwards a Skill of that name (case-folded)
\* among the returned ones, whatever the other entries of the list are.
C18_SyncSurvivesEveryIdentifier ==
  [][Called("syncSkills")
       => /\ last'.ok
          /\ \A k \in 1..Len(last'.args[1]) :
               PlainName(last'.args[1][k])
                 => \E i \in 1..Len(skills') :
                      /\ SameName(skills'[i].name, last'.args[1][k].name)
                      /\ InSeq(skills'[i].id, last'.ret)]_vars

\* C19: every call of cleanupOrphanedReferences() completes and returns its
\* counts, whatever single record the sweep comes across.
C19_CleanupSurvivesEveryRecord ==
  [][Called("cleanupOrphanedReferences")
       => /\ last'.ok
          /\ last'.ret.deactivatedSkills \in 0..Len(skills')]_vars

\* The identifier names no Skill of S: no Skill has the id it carries or
\* spells, and none has its name (trimmed, case-folded).
NamesNoSkill(S, identifier) ==
  \A i \in 1..Len(S) :
    /\ ~(identifier.kind = "obj" /\ identifier.id = S[i].id)
    /\ identifier.name # IdString(S[i].id)
    /\ ~SameName(trim(identifier.name), S[i].name)

\* C20: when the identifier names no Skill, hideSkill, showSkill, deleteSkill,
\* linkSkillToEntity and unlinkSkillFromEntity are rejected with 'Skill not
\* found' and change no Skill and no entity, and getSkillReferences and
\* canDeleteSkill return without failing: no references, canDelete = true,
\* totalReferences = 0.
C20_UnknownSkill ==
  [][/\ (/\ \/ Called("hideSkill") \/ Called("showSkill") \/ Called("deleteSkill")
            \/ Called("linkSkillToEntity") \/ Called("unlinkSkillFromEntity")
         /\ NamesNoSkill(skills, last'.args[1]))
          => /\ ~last'.ok
             /\ IF last'.op = "deleteSkill" THEN last'.ret.error = "Skill not found"
                ELSE last'.ret = "Skill not found"
             /\ UNCHANGED <<skills, projects, certifications, education>>
     /\ (Called("getSkillReferences") /\ NamesNoSkill(skills, last'.args[1]))
          => /\ last'.ok
             /\ last'.ret.projects = {} /\ last'.ret.certifications = {}
             /\ last'.ret.education = {}
     /\ (Called("canDeleteSkill") /\ NamesNoSkill(skills, last'.args[1]))
          => /\ last'.ok
             /\ last'.ret.canDelete /\ last'.ret.totalReferences = 0]_vars

\* The Skill an object carrying a name and an id stands for: the first Skill
\* of that name (trimmed, case-folded) when there is one, else the Skill with
\* that id; 0 when neither exists.
NamedOrById(S, identifier) ==
  IF SomeIn(S, LAMBDA d : SameName(trim(identifier.name), d.name))
  THEN CHOOSE i \in 1..Len(S) :
         /\ SameName(trim(identifier.name), S[i].name)
         /\ \A j \in 1..(i - 1) : ~SameName(trim(identifier.name), S[j].name)
  ELSE findById(S, identifier.id)

\* C21: the resolver, given an object carrying a name and an id, finds the
\* Skill of that name, else the Skill with that id, and finds none only when
\* neither exists: removeSkillSource called with such an object removes the
\* source from exactly that Skill, and changes nothing when there is none.
C21_NameThenIdFallback ==
  [][(/\ Called("removeSkillSource")
      /\ last'.args[1].kind = "obj"
      /\ last'.args[1].name # <<>> /\ last'.args[1].id # 0)
       => LET e == NamedOrById(skills, last'.args[1])
          IN /\ last'.ok
             /\ resolveSkill(skills, last'.args[1]).idx = e
             /\ e # 0 => ~HasSource(skills'[e], last'.args[2], last'.args[3])
             /\ e = 0 => skills' = skills]_vars

\* Two Skill records carry the same name (case-folded).
TwoOfOneName == \E i, j \in 1..Len(skills) : i # j /\ SameName(skills[i].name, skills[j].name)

C23_HideShowFrame ==
  [][((Called("hideSkill") \/ Called("showSkill")) /\ last'.ok)
       => LET i == resolveSkill(skills, last'.args[1]).idx
          IN /\ i # 0
             /\ skills'[i].isActive = (last'.op = "showSkill")
             /\ skills' = [skills EXCEPT ![i].isActive = (last'.op = "showSkill")]
             /\ UNCHANGED <<projects, certifications, education>>]_vars

\* C23's case: a Skill that the active Education record E1 lists, and that
\* carries sources, was hidden; it is inactive, E1 still lists it and its
\* sources are still there.
C23_HiddenWhileListed ==
  /\ Len(log) >= 2
  /\ last.op = "hideSkill" /\ last.ok
  /\ log[Len(log) - 1].op = "linkSkillToEntity" /\ log[Len(log) - 1].ok
  /\ Len(skills) = 1 /\ ~skills[1].isActive
  /\ skills[1].sources # <<>>
  /\ education["E1"].isActive /\ EntityLists(education["E1"], skills[1])

\* C24: when the project update route has handled a request that changes the
\* technologies of the Project P, it reports success and every technology
\* name P lists has a Skill record whose sources contain (project, P).
C24_ProjectTechnologiesTracked ==
  [][(/\ Called("updateProject") /\ last'.args[2].hasSkills
      /\ projects'[last'.args[1]].technologies # projects[last'.args[1]].technologies)
       => /\ last'.ok
          /\ \A k \in 1..Len(projects'[last'.args[1]].technologies) :
               \E i \in 1..Len(skills') :
                 /\ SameName(skills'[i].name, projects'[last'.args[1]].technologies[k])
                 /\ HasSource(skills'[i], "project", last'.args[1])]_vars

\* The type of entity an update route rewrites.
UpdatedType(op) ==
  IF op = "updateProject" THEN "project"
  ELSE IF op = "updateCertification" THEN "certification"
  ELSE "education"

\* C25: when the project, certification or education update route has
\* handled a request whose list drops a Skill the entity E listed before,
\* every Skill dropped from the list has no (type, E) source afterwards and
\* every Skill E lists afterwards has one.
C25_ShrunkListDropsSources ==
  [][\A op \in {"updateProject", "updateCertification", "updateEducation"} :
       LET t == UpdatedType(op)
           r == last'.args[1]
           dropped == {i \in 1..Len(skills) :
                         /\ ListsAt(projects, certifications, education, t, r, skills[i])
                         /\ ~ListsAt(projects', certifications', education', t, r, skills'[i])}
       IN (Called(op) /\ last'.args[2].hasSkills /\ dropped # {})
            => /\ \A i \in dropped : ~HasSource(skills'[i], t, r)
               /\ \A j \in 1..Len(skills') :
                    ListsAt(projects', certifications', education', t, r, skills'[j])
                      => HasSource(skills'[j], t, r)]_vars

\* C26: when unlinkSkillFromEntity(S, 'project', P) has completed, the
\* Project P lists no technology equal to S.name in any letter case and
\* P.skills does not hold the id of S.
C26_UnlinkClearsBothFields ==
  [][(/\ Called("unlinkSkillFromEntity") /\ last'.ok
      /\ last'.args[2] = "project")
       => LET d == skills[resolveSkill(skills, last'.args[1]).idx]
              doc == projects'[last'.args[3]]
          IN /\ ~SomeIn(doc.technologies, LAMBDA t : SameName(t, d.name))
             /\ ~InSeq(d.id, doc.skills)]_vars

\* The type of entity a delete route removes.
DeletedType(op) ==
  IF op = "deleteProject" THEN "project"
  ELSE IF op = "deleteCertification" THEN "certification"
  ELSE "education"

\* C27: when the project, certification or education delete route has
\* removed the entity E, no Skill has a source (type of E, id of E),
\* whatever shapes E stored its skills in.
C27_DeleteLeavesNoSource ==
  [][\A op \in {"deleteProject", "deleteCertification", "deleteEducation"} :
       Called(op)
         => /\ ~entityExists(projects', certifications', education',
                             DeletedType(op), last'.args[1])
            /\ \A i \in 1..Len(skills') :
                 ~HasSource(skills'[i], DeletedType(op), last'.args[1])]_vars

\* C28: when the certification toggle-active route has flipped the
\* Certification C, every Skill whose sources contain (certification, C) is
\* active exactly when an active entity lists it or it has a manual source.
C28_ToggleConvergesVisibility ==
  [][Called("toggleCertificationActive")
       => /\ certifications'[last'.args[1]].isActive = ~certifications[last'.args[1]].isActive
          /\ \A i \in 1..Len(skills') :
               HasSource(skills'[i], "certification", last'.args[1])
                 => skills'[i].isActive =
                      (ActivelyListed(projects', certifications', education', skills'[i])
                       \/ hasManualSource(skills'[i]))]_vars

\* C29: the deactivatedSkills count cleanupOrphanedReferences() returns is
\* the number of Skills whose isActive went from true to false in that
\* sweep, and a sweep that directly follows a completed sweep returns
\* deactivatedSkills = 0 and every cleaned count = 0.
C29_SweepCountsChanges ==
  [][(Called("cleanupOrphanedReferences") /\ last'.ok)
       => /\ last'.ret.deactivatedSkills =
               Cardinality({i \in 1..Len(skills) : skills[i].isActive /\ ~skills'[i].isActive})
          /\ (Len(log) > 0 /\ last.op = "cleanupOrphanedReferences" /\ last.ok)
               => /\ last'.ret.deactivatedSkills = 0
                  /\ last'.ret.cleanedProjects = 0
                  /\ last'.ret.cleanedCertifications = 0
                  /\ last'.ret.cleanedEducation = 0]_vars

\* The entry x of an entity's skills holds the Skill id.
HoldsId(x, id) ==
  \/ x.kind = "obj" /\ x.id = id
  \/ x.kind = "str" /\ x.name = IdString(id)

\* No two entries of sources name the same (type, referenceId) link.
NoDuplicateLink(sources) ==
  \A a, b \in 1..Len(sources) :
    (a # b /\ sources[a].type # "manual")
      => ~(sources[a].type = sources[b].type
           /\ sources[a].referenceId = sources[b].referenceId)

\* C30: when the cleanup-names route has merged a Skill into another Skill
\* of the same cleaned name and deleted it, the surviving Skill's sources
\* hold every (type, referenceId) link of both records, no link twice, and
\* no entity holds the id of the deleted Skill.
C30_MergeKeepsStoreConsistent ==
  [][Called("cleanupNames")
       => \A i \in 1..Len(skills) :
            findById(skills', skills[i].id) = 0
              => /\ \E j \in 1..Len(skills') :
                      /\ SameName(skills'[j].name, cleanSkillName(skills[i].name))
                      /\ \A k \in 1..Len(skills[i].sources) :
                           HasSource(skills'[j], skills[i].sources[k].type,
                                     skills[i].sources[k].referenceId)
                      /\ \A k \in 1..Len(skills[findById(skills, skills'[j].id)].sources) :
                           HasSource(skills'[j],
                                     skills[findById(skills, skills'[j].id)].sources[k].type,
                                     skills[findById(skills, skills'[j].id)].sources[k].referenceId)
                      /\ NoDuplicateLink(skills'[j].sources)
                 /\ \A p \in DOMAIN projects' : ~InSeq(skills[i].id, projects'[p].skills)
                 /\ \A c \in DOMAIN certifications' :
                      ~SomeIn(certifications'[c].skills, LAMBDA x : HoldsId(x, skills[i].id))
                 /\ \A e \in DOMAIN education' :
                      ~SomeIn(education'[e].skills, LAMBDA x : HoldsId(x, skills[i].id))]_vars

====
